---- MODULE Spec2Model ----
(***************************************************************************)
(* Model of pdf_extractor.py: the field extractor (extract_contractor_name *)
(* and extract_pdf_data), the store merger (update_excel) and the batch    *)
(* driver (main).                                                          *)
(*                                                                         *)
(* Python None, a pandas NaN/NaT and an empty spreadsheet cell are all     *)
(* the empty tuple <<>>; a present value v is the one-element tuple <<v>>. *)
(***************************************************************************)
EXTENDS Integers, Sequences, FiniteSets, TLC

VARIABLES folder, nDocs, idx, pc, text, data, outcome, prev, store, repeat, handled

vars == <<folder, nDocs, idx, pc, text, data, outcome, prev, store, repeat, handled>>

\* Number of PDF files the glob of main can yield.
MaxDocs == 3

\* Number of contractor-like phrases on a page.
MaxMentions == 2

None == <<>>

Some(v) == <<v>>

\* ------------------------------------------------------------------------
\* Page text.  A page is described by what each pattern of the extractor
\* finds on it: decoded (pdfplumber gave the first page's text), mentions
\* (the contractor-like phrases, left to right) and, per labelled field, the
\* token that follows the label (None when the pattern has no match).
\* Numeric tokens are sequences of characters; a date token is its three
\* numbers with the number of digits the year is written with.
\* ------------------------------------------------------------------------

DigitChars == <<"0", "1", "2", "3", "4", "5", "6", "7", "8", "9">>

IsDigit(c) == \E i \in 1..10 : DigitChars[i] = c

DigitVal(c) == (CHOOSE i \in 1..10 : DigitChars[i] = c) - 1

\* str.replace(',', '')
RECURSIVE StripCommas(_)
StripCommas(s) ==
    IF s = <<>> THEN <<>>
    ELSE IF Head(s) = "," THEN StripCommas(Tail(s))
    ELSE <<Head(s)>> \o StripCommas(Tail(s))

RECURSIVE CountChar(_, _)
CountChar(s, c) ==
    IF s = <<>> THEN 0
    ELSE (IF Head(s) = c THEN 1 ELSE 0) + CountChar(Tail(s), c)

RECURSIVE DigitsValue(_, _)
DigitsValue(s, acc) ==
    IF s = <<>> THEN acc
    ELSE IF IsDigit(Head(s)) THEN DigitsValue(Tail(s), 10 * acc + DigitVal(Head(s)))
    ELSE DigitsValue(Tail(s), acc)

RECURSIVE FracDigits(_)
FracDigits(s) ==
    IF s = <<>> THEN 0
    ELSE IF Head(s) = "." THEN Len(s) - 1
    ELSE FracDigits(Tail(s))

RECURSIVE Normalize(_, _)
Normalize(mant, exp) ==
    IF exp > 0 /\ mant % 10 = 0 THEN Normalize(mant \div 10, exp - 1)
    ELSE [mant |-> mant, exp |-> exp]

\* float(s) succeeds on digits with at most one point and at least one digit.
FloatOK(s) ==
    /\ \A i \in 1..Len(s) : IsDigit(s[i]) \/ s[i] = "."
    /\ CountChar(s, ".") <= 1
    /\ \E i \in 1..Len(s) : IsDigit(s[i])

\* float(s): the number mant / 10^exp, in lowest terms of ten.
Float(s) == Normalize(DigitsValue(s, 0), FracDigits(s))

\* int(s) of a \d+ token.
Int_(s) == DigitsValue(s, 0)

\* ------------------------------------------------------------------------
\* Dates
\* ------------------------------------------------------------------------

IsLeap(y) == (y % 4 = 0 /\ y % 100 # 0) \/ y % 400 = 0

DaysInMonth(m, y) ==
    IF m = 2 THEN (IF IsLeap(y) THEN 29 ELSE 28)
    ELSE IF m \in {4, 6, 9, 11} THEN 30 ELSE 31

ValidDate(m, d, y) == m \in 1..12 /\ d >= 1 /\ d <= DaysInMonth(m, y)

\* The group of the 'Start Date' / 'End Date' patterns,
\* (\d{2}/\d{2}/(?:\d{2}|\d{4})): the alternation is ordered and nothing
\* follows it, so the two-digit branch matches the first two digits of any
\* year and the match ends there.
DateGroup(t) ==
    [m |-> t.m, d |-> t.d,
     y |-> IF t.ylen = 4 THEN t.y \div 100 ELSE t.y,
     ylen |-> 2]

\* %y of strptime: 00..68 are 2000..2068, 69..99 are 1969..1999.
Pivot(yy) == IF yy <= 68 THEN 2000 + yy ELSE 1900 + yy

\* Lines 79-86: the date branch of the coercion.  On ValueError the value is
\* left as the matched text.
NormalizeDate(v) ==
    LET y == IF v.ylen = 2 THEN Pivot(v.y) ELSE v.y
    IN  IF ValidDate(v.m, v.d, y) /\ y >= 1
        THEN [m |-> v.m, d |-> v.d, y |-> y, ylen |-> 4]
        ELSE v

\* ------------------------------------------------------------------------
\* extract_contractor_name
\* ------------------------------------------------------------------------

\* Phrases that pattern p finds under re.IGNORECASE.
PatternMatches(p, s) ==
    CASE p = 1 -> s \in {"Xpert's LLC", "Xperts LLC", "XPERT'S LLC"}
      [] p = 2 -> s \in {"Ceres Environmental Services, Inc.",
                         "Ceres Environmental Services,Inc",
                         "CERES ENVIRONMENTAL SERVICES,  INC."}
      [] p = 3 -> s \in {"Wright Tree Service of Puerto Rico, LLC",
                         "wright tree service of puerto rico,LLC"}

NumPatterns == 3

\* re.search: the leftmost phrase of the page that the pattern matches.
RECURSIVE Search(_, _)
Search(p, ms) ==
    IF ms = <<>> THEN None
    ELSE IF PatternMatches(p, Head(ms)) THEN Some(Head(ms))
    ELSE Search(p, Tail(ms))

\* The leftmost phrase that any pattern matches.
RECURSIVE Leftmost(_)
Leftmost(ms) ==
    IF ms = <<>> THEN None
    ELSE IF \E p \in 1..NumPatterns : PatternMatches(p, Head(ms)) THEN Some(Head(ms))
    ELSE Leftmost(Tail(ms))

extract_contractor_leftmost(ms) == Leftmost(ms)

RECURSIVE TryPatterns(_, _)
TryPatterns(p, ms) ==
    IF p > NumPatterns THEN None
    ELSE IF Search(p, ms) # None THEN Search(p, ms)
    ELSE TryPatterns(p + 1, ms)

extract_contractor_name(ms) == TryPatterns(1, ms)

\* ------------------------------------------------------------------------
\* extract_pdf_data
\* ------------------------------------------------------------------------

Fields == {"Contractor", "Task Order #", "Total Amount", "Feeder ID",
           "Feeder Total Miles", "# of Work Orders",
           "Task Order Start Date", "Task Order End Date"}

\* match.group(1) of the field's pattern on the page, before coercion.
Group(t, f) ==
    CASE f = "Contractor" -> extract_contractor_name(t.mentions)
      [] f = "Task Order #" -> t.key
      [] f = "Total Amount" -> t.amount
      [] f = "Feeder ID" -> t.feeder
      [] f = "Feeder Total Miles" -> t.miles
      [] f = "# of Work Orders" -> t.wo
      [] f = "Task Order Start Date" ->
            IF t.start = None THEN None ELSE Some(DateGroup(t.start[1]))
      [] f = "Task Order End Date" ->
            IF t.end = None THEN None ELSE Some(DateGroup(t.end[1]))

\* Lines 72-77: a float() that raises is not handled inside the loop.
Raises(t) == t.miles # None /\ ~FloatOK(t.miles[1])

\* Lines 70-88: the value stored for a matched field.
Coerce(f, v) ==
    CASE f = "Total Amount" -> Float(StripCommas(v))
      [] f = "Feeder Total Miles" -> Float(v)
      [] f = "# of Work Orders" -> Int_(v)
      [] f \in {"Task Order Start Date", "Task Order End Date"} -> NormalizeDate(v)
      [] OTHER -> v

\* The dict, or None when anything raised (lines 95-97).
extract_pdf_data(t) ==
    IF ~t.decoded \/ Raises(t) THEN None
    ELSE Some([f \in {g \in Fields : Group(t, g) # None} |-> Coerce(f, Group(t, f)[1])])

\* dict.get
Get(d, f) == IF f \in DOMAIN d THEN Some(d[f]) ELSE None

\* Truth value of extract_pdf_data's result: None and {} are both false.
Truthy(r) == r # None /\ DOMAIN r[1] # {}

\* ------------------------------------------------------------------------
\* update_excel
\* ------------------------------------------------------------------------

\* Lines 104-108: the columns of the sheet.
Columns == <<"Task Order #", "Contractor", "Total Amount", "Feeder ID",
             "Feeder Total Miles", "# of Work Orders",
             "Task Order Start Date", "Task Order End Date">>

ColumnSet == {Columns[i] : i \in 1..Len(Columns)}

\* The sheet on disk: no file, a file with rows, or a file that a failed
\* overwrite left unreadable.
Absent == [state |-> "absent", rows |-> <<>>]

File(rows) == [state |-> "file", rows |-> rows]

Corrupt == [state |-> "corrupt", rows |-> <<>>]

\* Strings that pd.read_excel, called with its default na_values and
\* keep_default_na, reads as NaN; these are the ones [\w-]+ can capture.
NAStrings == {"NA", "NULL", "NaN", "None", "nan", "null", "-NaN", "-nan"}

\* A cell of the key column as read back: a text cell holding an NA string
\* is NaN.
ReadCell(c) == IF c # None /\ c[1] \in NAStrings THEN None ELSE c

\* pd.read_excel(excel_path)
read_excel(rows) ==
    [i \in 1..Len(rows) |->
        [c \in ColumnSet |->
            IF c = "Task Order #" THEN ReadCell(rows[i][c]) ELSE rows[i][c]]]

\* Series.astype(str): NaN becomes the text 'nan'.
AsStr(c) == IF c = None THEN "nan" ELSE c[1]

\* df['Task Order #'].astype(str).eq(task_order).any()
KeyExists(df, k) == \E i \in 1..Len(df) : AsStr(df[i]["Task Order #"]) = k

\* The guard without the look-up in the key column.
IsNew_unchecked(df, task_order) == task_order # None

\* The guard without the truth test of task_order.
IsNew_keyless(df, task_order) == task_order = None \/ ~KeyExists(df, task_order[1])

\* Line 114: the test that guards the append.
IsNew(df, task_order) == task_order # None /\ ~KeyExists(df, task_order[1])

\* pd.DataFrame([data]): the columns the dict lacks are NaN after the concat.
NewRow(d) == [c \in ColumnSet |-> Get(d, c)]

\* A parsed date (a pandas Timestamp) is a date record with ylen = 0.
Timestamp(y, m, d) == [m |-> m, d |-> d, y |-> y, ylen |-> 0]

\* A day as a number that orders like the calendar.
Ordinal(v) == v.y * 10000 + v.m * 100 + v.d

\* Day, month and year that pd.to_datetime reads from dd/dd/dd text when no
\* format is given (the resolution of its dateutil fallback): a first number
\* above 31 is the year, above 12 the day, else the month.
\* A two-digit year is taken in the century of the run, 20yy.
Resolve(v) ==
    IF v.m > 31 THEN Timestamp(2000 + v.m, v.d, v.y)
    ELSE IF v.m > 12 THEN Timestamp(2000 + v.y, v.d, v.m)
    ELSE Timestamp(2000 + v.y, v.m, v.d)

\* pd.to_datetime of one cell: a timestamp stays, MM/DD/YYYY text is read
\* month first, other text is resolved.
Datetime(v) ==
    IF v.ylen = 0 THEN v
    ELSE IF v.ylen = 4 THEN Timestamp(v.y, v.m, v.d)
    ELSE Resolve(v)

\* pd.to_datetime raises on text that is no date.
DatetimeOK(v) == LET r == Datetime(v) IN ValidDate(r.m, r.d, r.y)

StartOf(row) == row["Task Order Start Date"]

\* Line 120: pd.to_datetime over the whole column raises if one cell does.
ColumnOK(rows) ==
    \A i \in 1..Len(rows) : StartOf(rows[i]) = None \/ DatetimeOK(StartOf(rows[i])[1])

to_datetime(rows) ==
    [i \in 1..Len(rows) |->
        [rows[i] EXCEPT !["Task Order Start Date"] =
            IF @ = None THEN None ELSE Some(Datetime(@[1]))]]

\* The frame left unsorted.
sort_values_skipped(rows) == {rows}

Without(rows, i) == SubSeq(rows, 1, i - 1) \o SubSeq(rows, i + 1, Len(rows))

\* df.sort_values('Task Order Start Date', ascending=False): the rows by
\* falling start date.  The default sort is not stable, so rows with equal
\* dates may come out in any order; NaT rows go last in their original order.
RECURSIVE sort_values(_)
sort_values(rows) ==
    IF rows = <<>> THEN {<<>>}
    ELSE
      LET dated == {i \in 1..Len(rows) : StartOf(rows[i]) # None}
          first == IF dated = {} THEN {1}
                   ELSE {i \in dated : \A j \in dated :
                            Ordinal(StartOf(rows[i])[1]) >= Ordinal(StartOf(rows[j])[1])}
      IN  UNION {{<<rows[i]>> \o rest : rest \in sort_values(Without(rows, i))} :
                    i \in first}

\* What the file system does during one call.
IOEvents == {"ok", "readFail", "writeFail", "writeTorn"}

Raised(st, what) == [store |-> st, outcome |-> what, raised |-> TRUE]

Returned(st, what) == [store |-> st, outcome |-> what, raised |-> FALSE]

\* The body with the sheet written before the start dates are parsed.
update_excel_writes_first(d, st, io) ==
    IF st.state = "corrupt" \/ (st.state = "file" /\ io = "readFail")
    THEN {Raised(st, "readError")}
    ELSE
      LET df == IF st.state = "absent" THEN <<>> ELSE read_excel(st.rows)
          new == Append(df, NewRow(d))
      IN  IF ~IsNew(df, Get(d, "Task Order #"))
          THEN {Returned(st, "exists")}
          ELSE IF io = "writeFail"
          THEN {Raised(st, "writeError")}
          ELSE IF io = "writeTorn"
          THEN {Raised(Corrupt, "writeError")}
          ELSE IF ~ColumnOK(new)
          THEN {Raised(File(new), "dateError")}
          ELSE {Returned(File(rows), "appended") :
                    rows \in sort_values(to_datetime(new))}

\* Lines 102-127, the body of the try: the sheets one call can leave and how
\* it ends (the branch logged, or the exception raised).
update_excel_body(d, st, io) ==
    IF st.state = "corrupt" \/ (st.state = "file" /\ io = "readFail")
    THEN {Raised(st, "readError")}
    ELSE
      LET df == IF st.state = "absent" THEN <<>> ELSE read_excel(st.rows)
          new == Append(df, NewRow(d))
      IN  IF ~IsNew(df, Get(d, "Task Order #"))
          THEN {Returned(st, "exists")}
          ELSE IF ~ColumnOK(new)
          THEN {Raised(st, "dateError")}
          ELSE IF io = "writeFail"
          THEN {Raised(st, "writeError")}
          ELSE IF io = "writeTorn"
          THEN {Raised(Corrupt, "writeError")}
          ELSE {Returned(File(rows), "appended") :
                    rows \in sort_values(to_datetime(new))}

\* The call without its handler.
update_excel_uncaught(d, st, io) == update_excel_body(d, st, io)

\* update_excel(data, excel_path): lines 129-130 catch every Exception.
update_excel(d, st, io) ==
    {[r EXCEPT !.raised = FALSE] : r \in update_excel_body(d, st, io)}

\* ------------------------------------------------------------------------
\* Pages of the batch
\* ------------------------------------------------------------------------

Date2(m, d, yy) == [m |-> m, d |-> d, y |-> yy, ylen |-> 2]

Date4(m, d, yyyy) == [m |-> m, d |-> d, y |-> yyyy, ylen |-> 4]

\* The page of a complete task order.
Page(key, start) ==
    [decoded |-> TRUE,
     mentions |-> <<"Ceres Environmental Services, Inc.">>,
     key |-> key,
     amount |-> Some(<<"1", "2", ",", "5", "0", "0", ".", "0", "0">>),
     feeder |-> Some("1234-56"),
     miles |-> Some(<<"3", ".", "5">>),
     wo |-> Some(<<"7">>),
     start |-> start,
     end |-> Some(Date2(2, 15, 24))]

BlankPage ==
    [decoded |-> TRUE, mentions |-> <<>>, key |-> None, amount |-> None,
     feeder |-> None, miles |-> None, wo |-> None, start |-> None, end |-> None]

BatchKeys == {None, Some("TO-2024-001"), Some("TO-2024-002"), Some("None")}

BatchStarts == {None, Some(Date2(1, 15, 24)), Some(Date2(2, 15, 24)),
                Some(Date2(13, 5, 24)), Some(Date2(2, 30, 24))}

BatchTexts ==
    {Page(k, s) : k \in BatchKeys, s \in BatchStarts}
    \cup {[Page(Some("TO-2024-001"), Some(Date2(1, 15, 24))) EXCEPT !.decoded = FALSE],
          [Page(Some("TO-2024-001"), Some(Date2(1, 15, 24))) EXCEPT
               !.miles = Some(<<"1", ".", "2", ".", "3">>)],
          [Page(Some("TO-2024-002"), Some(Date2(1, 15, 24))) EXCEPT !.wo = None],
          BlankPage}

\* ------------------------------------------------------------------------
\* main
\* ------------------------------------------------------------------------

\* A smaller folder with a page for each way a file can end.
ProgressTexts ==
    {[Page(Some("TO-2024-001"), Some(Date2(1, 15, 24))) EXCEPT !.decoded = FALSE],
     [Page(Some("TO-2024-001"), Some(Date2(1, 15, 24))) EXCEPT
          !.miles = Some(<<"1", ".", "2", ".", "3">>)],
     BlankPage,
     Page(Some("TO-2024-001"), Some(Date2(1, 15, 24))),
     Page(Some("TO-2024-002"), Some(Date2(2, 15, 24))),
     Page(Some("TO-2024-002"), Some(Date2(2, 30, 24)))}

\* folder holds the pages that the files of data/input can show; nDocs is the
\* number of files the glob yields.
InitWith(pages) ==
    /\ folder = pages
    /\ nDocs \in 0..MaxDocs
    /\ idx = 0
    /\ pc = "loop"
    /\ text = BlankPage
    /\ data = None
    /\ outcome = "none"
    /\ prev = "none"
    /\ store \in {Absent, File(<<>>)}
    /\ repeat = FALSE
    /\ handled = <<>>

Init == InitWith(BatchTexts)

FairInit == InitWith(ProgressTexts)

\* Lines 140-142: the loop takes the next file and extracts its record.
\* prev keeps the outcome of the file before; repeat notes that the record
\* is the one the previous call merged.
Extract ==
    /\ pc = "loop"
    /\ idx < nDocs
    /\ \E t \in folder :
          /\ text' = t
          /\ data' = extract_pdf_data(t)
          /\ repeat' = (/\ outcome \in {"appended", "exists"}
                        /\ extract_pdf_data(t) = data)
    /\ idx' = idx + 1
    /\ pc' = "extracted"
    /\ outcome' = "pending"
    /\ prev' = outcome
    /\ UNCHANGED <<folder, nDocs, store, handled>>

\* Lines 144-145.  An exception that leaves update_excel ends main.
Merge ==
    /\ pc = "extracted"
    /\ Truthy(data)
    /\ \E io \in IOEvents :
          \E r \in update_excel(data[1], store, io) :
              /\ store' = r.store
              /\ outcome' = r.outcome
              /\ pc' = IF r.raised THEN "crashed" ELSE "loop"
              /\ handled' = IF r.raised THEN handled ELSE Append(handled, idx)
    /\ UNCHANGED <<folder, nDocs, idx, text, data, prev, repeat>>

\* Lines 146-147.
ReportFailed ==
    /\ pc = "extracted"
    /\ ~Truthy(data)
    /\ outcome' = "failed"
    /\ pc' = "loop"
    /\ handled' = Append(handled, idx)
    /\ UNCHANGED <<folder, nDocs, idx, text, data, prev, store, repeat>>

\* The glob is exhausted and main returns.
Finish ==
    /\ pc = "loop"
    /\ idx = nDocs
    /\ pc' = "done"
    /\ UNCHANGED <<folder, nDocs, idx, text, data, outcome, prev, store, repeat, handled>>

Next == Extract \/ Merge \/ ReportFailed \/ Finish

Spec == Init /\ [][Next]_vars

\* The interpreter runs the loop to its end.
FairSpec == FairInit /\ [][Next]_vars /\ WF_vars(Next)

\* ------------------------------------------------------------------------
\* One call of extract_pdf_data on a page
\* ------------------------------------------------------------------------

Phrases == {"Xpert's LLC", "Xperts LLC", "XPERT'S LLC", "Xperts, LLC",
            "Ceres Environmental Services, Inc.",
            "Ceres Environmental Services,Inc",
            "CERES ENVIRONMENTAL SERVICES,  INC.",
            "Ceres Environmental Services Inc.",
            "Wright Tree Service of Puerto Rico, LLC",
            "wright tree service of puerto rico,LLC"}

MentionTexts ==
    {[BlankPage EXCEPT !.mentions = ms] :
        ms \in UNION {[1..n -> Phrases] : n \in 0..MaxMentions}}

DateMonths == {0, 1, 2, 12, 13}

DateDays == {1, 5, 29, 30, 31}

DateTokens ==
    {Date2(m, d, y) : m \in DateMonths, d \in DateDays, y \in {0, 23, 24, 68, 69, 99}}
    \cup {Date4(m, d, y) : m \in DateMonths, d \in DateDays,
                           y \in {1969, 1999, 2000, 2023, 2024, 2068}}

DateTexts ==
    {[BlankPage EXCEPT !.start = Some(t)] : t \in DateTokens}
    \cup {[BlankPage EXCEPT !.end = Some(t)] : t \in DateTokens}

ExtractInit ==
    /\ folder = MentionTexts \cup DateTexts \cup BatchTexts
    /\ text \in folder
    /\ pc = "call"
    /\ data = None
    /\ nDocs = 1
    /\ idx = 1
    /\ outcome = "pending"
    /\ prev = "none"
    /\ store = Absent
    /\ repeat = FALSE
    /\ handled = <<>>

\* Line 142: data = extract_pdf_data(pdf_file)
Call ==
    /\ pc = "call"
    /\ data' = extract_pdf_data(text)
    /\ pc' = "return"
    /\ UNCHANGED <<folder, nDocs, idx, text, outcome, prev, store, repeat, handled>>

ExtractSpec == ExtractInit /\ [][Call]_vars

\* ------------------------------------------------------------------------
\* Properties
\* ------------------------------------------------------------------------

KeyOf(row) == row["Task Order #"]

DataKey == Get(data[1], "Task Order #")

DataStart == Get(data[1], "Task Order Start Date")

Merging == pc = "extracted" /\ Truthy(data)

Failures == {"readError", "dateError", "writeError"}

C2_Idempotent ==
    [][(Merging /\ repeat /\ DataKey # None) => store' = store]_vars

\* A valid date written with a four-digit year (in the range that a
\* two-digit year can name) is extracted as that date in MM/DD/YYYY form, the
\* same value as its two-digit-year spelling gives.
C3_OneDate(tok, field) ==
    (/\ tok # None
     /\ tok[1].ylen = 4
     /\ tok[1].y \in 1969..2068
     /\ ValidDate(tok[1].m, tok[1].d, tok[1].y))
    => LET two == [BlankPage EXCEPT !.start = Some(Date2(tok[1].m, tok[1].d, tok[1].y % 100)),
                                    !.end = Some(Date2(tok[1].m, tok[1].d, tok[1].y % 100))]
       IN  /\ data[1][field] = Date4(tok[1].m, tok[1].d, tok[1].y)
           /\ data[1][field] = extract_pdf_data(two)[1][field]

\* C3: both the Start Date and the End Date of a page normalize this way.
C3_SameCanonicalDate ==
    (pc = "return" /\ data # None)
        => /\ C3_OneDate(text.start, "Task Order Start Date")
           /\ C3_OneDate(text.end, "Task Order End Date")

\* C4 as claimed: a record with no Task Order # is appended whenever the
\* call does not fail.
C4_KeylessAppended ==
    [][(Merging /\ DataKey = None /\ outcome' \notin Failures)
          => (outcome' = "appended" /\ Len(store'.rows) = Len(store.rows) + 1)]_vars

\* C4 as amended: a record with no Task Order # is never appended; the call
\* takes the 'already exists' branch (or fails reading the sheet) and the
\* sheet stays as it is.
C4_KeylessIgnored ==
    [][(Merging /\ DataKey = None)
          => (store' = store /\ outcome' \in {"exists", "readError"})]_vars

\* A keyless record met a sheet with rows and was logged as existing.
C4_Witness ==
    /\ outcome = "exists"
    /\ Truthy(data)
    /\ DataKey = None
    /\ Len(store.rows) >= 1

\* C5: the rows of the written sheet are in non-increasing order of parsed
\* start date, rows without a start date last.
C5_SortedByStart ==
    \A i \in 1..(Len(store.rows) - 1) :
        LET a == store.rows[i]["Task Order Start Date"]
            b == store.rows[i + 1]["Task Order Start Date"]
        IN  b = None \/ (a # None /\ Ordinal(a[1]) >= Ordinal(b[1]))

\* An append put its row before an older one in a sheet of three.
C5_Witness ==
    /\ outcome = "appended"
    /\ Len(store.rows) >= 3
    /\ KeyOf(store.rows[1]) = DataKey
    /\ StartOf(store.rows[1]) # None
    /\ StartOf(store.rows[2]) # None
    /\ Ordinal(StartOf(store.rows[1])[1]) > Ordinal(StartOf(store.rows[2])[1])

\* C6: a record whose Task Order # is in the key column of the sheet, with a
\* start date other than the stored row's, leaves the sheet as it is.
C6_NoUpsert ==
    [][(/\ Merging
        /\ DataKey # None
        /\ \E i \in 1..Len(store.rows) :
              /\ KeyOf(store.rows[i]) = DataKey
              /\ StartOf(store.rows[i]) #
                    (IF DataStart = None THEN None ELSE Some(Datetime(DataStart[1]))))
          => store' = store]_vars

\* C7: main takes the files one after another, no failure leaves the
\* per-file handlers, and the loop ends with every file handled once.
C7_BatchProgress ==
    /\ [](pc # "crashed")
    /\ [](handled = [i \in 1..Len(handled) |-> i])
    /\ [](Len(handled) = IF pc = "extracted" THEN idx - 1 ELSE idx)
    /\ <>(pc = "done" /\ Len(handled) = nDocs)

\* A batch of three ended after a torn write, a failed read of the torn
\* sheet and a failed extraction.
C7_Witness ==
    /\ pc = "done"
    /\ nDocs >= 3
    /\ prev = "readError"
    /\ outcome = "failed"
    /\ store = Corrupt

\* C8: a page that decodes and whose matched values all coerce is never
\* reported as failed by the driver, whichever labels it lacks.
C8_MissingFieldsNeverFail ==
    (pc = "loop" /\ idx > 0 /\ text.decoded /\ ~Raises(text)) => outcome # "failed"

\* No reading of the three numbers of dd/dd/dd text is a calendar date.
NoDateReading(v) ==
    /\ v.ylen = 2
    /\ ~ValidDate(v.m, v.d, 2000 + v.y)
    /\ ~ValidDate(v.d, v.m, 2000 + v.y)
    /\ ~ValidDate(v.d, v.y, 2000 + v.m)

\* The records of the batch with a Task Order # and a normalized start date.
ValidRecords ==
    {extract_pdf_data(t)[1] :
        t \in {u \in BatchTexts :
                  /\ Truthy(extract_pdf_data(u))
                  /\ Get(extract_pdf_data(u)[1], "Task Order #") # None
                  /\ Get(extract_pdf_data(u)[1], "Task Order Start Date") # None
                  /\ extract_pdf_data(u)[1]["Task Order Start Date"].ylen = 4}}

\* C9 as claimed: a new-key record whose start date was kept as raw text
\* leaves the sheet as it was.
C9_RawDateNeverStored ==
    [][(/\ Merging
        /\ DataStart # None
        /\ DataStart[1].ylen = 2
        /\ store.state # "corrupt")
          => store' \in {store, Corrupt}]_vars

\* C9 as amended: a record whose raw start date has no reading as a date is
\* never stored and the call returns; a call that fails reading the sheet or
\* parsing the dates leaves the sheet as it was; and a readable sheet always
\* accepts a new-key record with a normalized start date.
C9_FailedMergeIntact ==
    /\ [][(Merging /\ DataStart # None /\ NoDateReading(DataStart[1]))
            => (store' = store /\ pc' = "loop")]_vars
    /\ [][(Merging /\ outcome' \in {"readError", "dateError"}) => store' = store]_vars
    /\ [](store.state # "corrupt" =>
            \A d \in ValidRecords :
                d["Task Order #"] \notin {AsStr(KeyOf(read_excel(store.rows)[i])) :
                                             i \in 1..Len(store.rows)}
                    => \A r \in update_excel(d, store, "ok") :
                           r.outcome = "appended" /\ ~r.raised)

\* After a rejected raw date a later record was appended to the kept rows.
C9_Witness ==
    /\ prev = "dateError"
    /\ outcome = "appended"
    /\ Len(store.rows) >= 2

\* Lines 22-24: the names as the patterns spell them.
KnownNames == {"Xpert's LLC", "Ceres Environmental Services, Inc.",
               "Wright Tree Service of Puerto Rico, LLC"}

\* C10 as claimed: the Contractor field is absent or one of the known names.
C10_KnownName ==
    (pc = "return" /\ data # None)
        => ("Contractor" \in DOMAIN data[1] => data[1]["Contractor"] \in KnownNames)

\* C10 as amended: the Contractor field is absent when no pattern matches;
\* otherwise it is the text, as the page spells it, of the leftmost phrase
\* matched by the first pattern in list order that matches anything.
C10_FirstPatternText ==
    (pc = "return" /\ data # None)
        => LET ms == text.mentions
               hits == {p \in 1..NumPatterns :
                           \E i \in 1..Len(ms) : PatternMatches(p, ms[i])}
           IN  IF hits = {} THEN "Contractor" \notin DOMAIN data[1]
               ELSE LET p == CHOOSE q \in hits : \A r \in hits : q <= r
                        i == CHOOSE k \in 1..Len(ms) :
                                /\ PatternMatches(p, ms[k])
                                /\ \A l \in 1..(k - 1) : ~PatternMatches(p, ms[l])
                    IN  /\ "Contractor" \in DOMAIN data[1]
                        /\ data[1]["Contractor"] = ms[i]

\* The second phrase won over the first by list order, in the page's own
\* spelling.
C10_Witness ==
    /\ pc = "return"
    /\ data # None
    /\ Len(text.mentions) = 2
    /\ PatternMatches(3, text.mentions[1])
    /\ PatternMatches(1, text.mentions[2])
    /\ data[1]["Contractor"] = text.mentions[2]
    /\ text.mentions[2] \notin KnownNames

====
